---- MODULE Spec2Model ----
(***************************************************************************)
(* Model of the in-memory MVCC key-value engine of src/mvcc.h and          *)
(* src/mvcc.cc: the transaction table, the multi-version storage, the      *)
(* visibility check and the commit-time conflict validation.  Every call   *)
(* of the single-threaded interface is one atomic action.                  *)
(***************************************************************************)
EXTENDS Integers, Sequences, FiniteSets, TLC

\* ---- bounds of the model ----
MaxCalls == 7       \* number of calls of the interface explored in one run
MaxTxns == 3        \* number of CreateConn calls explored in one run

Keys == {"k1"}
TwoKeys == {"k1", "k2"}
Values == {"a", "b"}
None == "none"      \* std::nullopt

\* src/mvcc.h:28
kInvalidTxnId == 0

kReadCommittedIsolation == "ReadCommitted"
kRepeatableReadIsolation == "RepeatableRead"
kSnapshotIsolation == "Snapshot"
kSerializableIsolation == "Serializable"
IsolationLevel ==
  {kReadCommittedIsolation, kRepeatableReadIsolation,
   kSnapshotIsolation, kSerializableIsolation}

kInProgress == "InProgress"
kCommitted == "Committed"
kAborted == "Aborted"
TransactionState == {kInProgress, kCommitted, kAborted}

VARIABLES
  db_txns,           \* Database::db_txns: TxnId -> Transaction
  storage,           \* Database::storage: key -> vector of ValueWrapper
  next_txn_id,       \* Database::next_txn_id
  isolation_level_,  \* Database::isolation_level_
  conns,             \* the Connection objects still in scope, by txn id
  ret,               \* the last call and what it returned
  calls              \* number of calls made so far

vars == <<db_txns, storage, next_txn_id, isolation_level_, conns, ret, calls>>

TxnIds == DOMAIN db_txns

\* struct Transaction, as built by CreateConn
Transaction(level, inprogress) ==
  [isolation_level |-> level,
   inprogress_txns |-> inprogress,
   state |-> kInProgress,
   write_set |-> {},
   read_set |-> {}]

\* struct ValueWrapper
ValueWrapper(value, start, end) ==
  [value |-> value, start_txn_id |-> start, end_txn_id |-> end]

\* The record of a call: the operation, the connection's transaction, the key,
\* the value passed or returned, for Get the position in the chain of the
\* version returned (0: none), and the boolean result.
Ret(op, txn, key, value, idx, ok) ==
  [op |-> op, txn |-> txn, key |-> key, value |-> value, idx |-> idx,
   ok |-> ok]

\* A Database after construction (the member initialisers of struct Database).
Init ==
  /\ db_txns = <<>>
  /\ storage = <<>>
  /\ next_txn_id = kInvalidTxnId + 1
  /\ isolation_level_ = kSnapshotIsolation
  /\ conns = {}
  /\ ret = Ret("init", 0, None, None, 0, TRUE)
  /\ calls = 0

\* A Database constructed and switched to serializable isolation before any
\* connection exists, the set-up of
\* TestMultipleTransactions_SerializableIsolation.
InitSerializable ==
  /\ db_txns = <<>>
  /\ storage = <<>>
  /\ next_txn_id = kInvalidTxnId + 1
  /\ isolation_level_ = kSerializableIsolation
  /\ conns = {}
  /\ ret = Ret("init", 0, None, None, 0, TRUE)
  /\ calls = 0

\* The database of TestMultipleTransactions_SnapshotIsolation after its
\* set-up: one transaction has set the key and committed, and its connection
\* has left its scope.
InitPreloaded ==
  /\ db_txns = <<[Transaction(kSnapshotIsolation, {}) EXCEPT
                    !.state = kCommitted, !.write_set = {"k1"}]>>
  /\ storage = [key \in {"k1"} |-> <<ValueWrapper("a", 1, kInvalidTxnId)>>]
  /\ next_txn_id = 2
  /\ isolation_level_ = kSnapshotIsolation
  /\ conns = {}
  /\ ret = Ret("destroy", 1, None, None, 0, TRUE)
  /\ calls = 0

\* One more call is made, while fewer than MaxCalls were.
Counted == calls < MaxCalls /\ calls' = calls + 1

\* Database::SetIsolationLevel
SetIsolationLevel(level) ==
  /\ Counted
  /\ isolation_level_' = level
  /\ ret' = Ret("level", 0, None, None, 0, TRUE)
  /\ UNCHANGED <<db_txns, storage, next_txn_id, conns>>

\* CreateConn without the test of the state of the transactions it collects.
CreateConnAnyState ==
  /\ Counted
  /\ next_txn_id <= MaxTxns
  /\ db_txns' = Append(db_txns, Transaction(isolation_level_, TxnIds))
  /\ next_txn_id' = next_txn_id + 1
  /\ conns' = conns \cup {next_txn_id}
  /\ ret' = Ret("begin", next_txn_id, None, None, 0, TRUE)
  /\ UNCHANGED <<storage, isolation_level_>>

\* Database::CreateConn.  The Connection returned is the local object conn
\* itself (the copy is elided, as the tests rely on), so no destructor runs
\* here.
CreateConn ==
  /\ Counted
  /\ next_txn_id <= MaxTxns
  /\ LET inprogress == {id \in TxnIds : db_txns[id].state = kInProgress}
     IN db_txns' = Append(db_txns, Transaction(isolation_level_, inprogress))
  /\ next_txn_id' = next_txn_id + 1
  /\ conns' = conns \cup {next_txn_id}
  /\ ret' = Ret("begin", next_txn_id, None, None, 0, TRUE)
  /\ UNCHANGED <<storage, isolation_level_>>

\* Database::HasWriteConflict
HasWriteConflict(txn1, txn2) ==
  \E cur_key \in txn1.write_set : cur_key \in txn2.write_set

\* HasReadWriteConflict with its second loop left out: the keys txn1 read
\* are not compared with the keys txn2 wrote.
HasReadWriteConflictOneWay(txn1, txn2) ==
  \E cur_key \in txn1.write_set : cur_key \in txn2.read_set

\* Database::HasReadWriteConflict
HasReadWriteConflict(txn1, txn2) ==
  \/ \E cur_key \in txn1.write_set : cur_key \in txn2.read_set
  \/ \E cur_key \in txn1.read_set : cur_key \in txn2.write_set

\* IsVisible with the test of the writer's state left out of case 3.
IsVisibleAnyWriterState(value_wrapper, txn_id) ==
  IF value_wrapper.end_txn_id = txn_id THEN FALSE
  ELSE IF value_wrapper.start_txn_id = txn_id THEN TRUE
  ELSE IF value_wrapper.start_txn_id < txn_id
       THEN IF value_wrapper.end_txn_id = kInvalidTxnId THEN TRUE
            ELSE IF /\ value_wrapper.end_txn_id # kInvalidTxnId
                    /\ db_txns[value_wrapper.end_txn_id].state # kCommitted
                 THEN TRUE
                 ELSE FALSE
       ELSE FALSE

\* IsVisible without case 1: a version the reader itself ended is judged as
\* any other.
IsVisibleIgnoringOwnEnd(value_wrapper, txn_id) ==
  IF value_wrapper.start_txn_id = txn_id THEN TRUE
  ELSE IF /\ value_wrapper.start_txn_id < txn_id
          /\ db_txns[value_wrapper.start_txn_id].state = kCommitted
       THEN IF value_wrapper.end_txn_id = kInvalidTxnId THEN TRUE
            ELSE IF /\ value_wrapper.end_txn_id # kInvalidTxnId
                    /\ db_txns[value_wrapper.end_txn_id].state # kCommitted
                 THEN TRUE
                 ELSE FALSE
       ELSE FALSE

\* IsVisible with the comparison of start_txn_id and txn_id left out of
\* case 3.
IsVisibleAnyStart(value_wrapper, txn_id) ==
  IF value_wrapper.end_txn_id = txn_id THEN FALSE
  ELSE IF value_wrapper.start_txn_id = txn_id THEN TRUE
  ELSE IF db_txns[value_wrapper.start_txn_id].state = kCommitted
       THEN IF value_wrapper.end_txn_id = kInvalidTxnId THEN TRUE
            ELSE IF /\ value_wrapper.end_txn_id # kInvalidTxnId
                    /\ db_txns[value_wrapper.end_txn_id].state # kCommitted
                 THEN TRUE
                 ELSE FALSE
       ELSE FALSE

\* Database::IsVisible(value_wrapper, txn); of txn only txn_id is read.
IsVisible(value_wrapper, txn_id) ==
  IF value_wrapper.end_txn_id = txn_id THEN FALSE
  ELSE IF value_wrapper.start_txn_id = txn_id THEN TRUE
  ELSE IF /\ value_wrapper.start_txn_id < txn_id
          /\ db_txns[value_wrapper.start_txn_id].state = kCommitted
       THEN IF value_wrapper.end_txn_id = kInvalidTxnId THEN TRUE
            ELSE IF /\ value_wrapper.end_txn_id # kInvalidTxnId
                    /\ db_txns[value_wrapper.end_txn_id].state # kCommitted
                 THEN TRUE
                 ELSE FALSE
       ELSE FALSE

\* The reverse scan of Connection::Get: index of the last visible version of
\* the chain, 0 when none is visible.
LastVisible(value_wrappers, txn_id) ==
  LET visible == {idx \in 1..Len(value_wrappers) :
                    IsVisible(value_wrappers[idx], txn_id)}
  IN IF visible = {} THEN 0
     ELSE CHOOSE idx \in visible : \A other \in visible : other <= idx

\* What Connection::Get returns for key to the transaction txn_id in the
\* current state: the version's position in the chain (0: std::nullopt) and
\* the value.
GetResult(txn_id, key) ==
  IF key \notin DOMAIN storage THEN [idx |-> 0, value |-> None]
  ELSE LET idx == LastVisible(storage[key], txn_id)
       IN [idx |-> idx,
           value |-> IF idx = 0 THEN None ELSE storage[key][idx].value]

\* The loop shared by Connection::Set and Connection::Delete: mark every
\* visible version as ended by the transaction.
MarkVisible(value_wrappers, txn_id) ==
  [idx \in 1..Len(value_wrappers) |->
     IF IsVisible(value_wrappers[idx], txn_id)
     THEN [value_wrappers[idx] EXCEPT !.end_txn_id = txn_id]
     ELSE value_wrappers[idx]]

\* Connection::Get
Get(t, key) ==
  /\ Counted
  /\ t \in conns
  /\ db_txns' = IF key \notin DOMAIN storage THEN db_txns
                ELSE [db_txns EXCEPT ![t].read_set = @ \cup {key}]
  /\ LET got == GetResult(t, key)
     IN ret' = Ret("get", t, key, got.value, got.idx, got.idx # 0)
  /\ UNCHANGED <<storage, next_txn_id, isolation_level_, conns>>

\* Connection::Set
Set(t, key, value) ==
  /\ Counted
  /\ t \in conns
  /\ LET value_wrappers ==
           IF key \in DOMAIN storage THEN storage[key] ELSE <<>>
     IN storage' =
          [k \in DOMAIN storage \cup {key} |->
             IF k = key
             THEN Append(MarkVisible(value_wrappers, t),
                         ValueWrapper(value, t, kInvalidTxnId))
             ELSE storage[k]]
  /\ db_txns' = [db_txns EXCEPT ![t].write_set = @ \cup {key}]
  /\ ret' = Ret("set", t, key, value, 0, TRUE)
  /\ UNCHANGED <<next_txn_id, isolation_level_, conns>>

\* Connection::Delete returning false also when the chain of the key holds
\* no version visible to the transaction.
DeleteOnlyIfVisible(t, key) ==
  /\ Counted
  /\ t \in conns
  /\ IF GetResult(t, key).idx = 0
     THEN /\ ret' = Ret("delete", t, key, None, 0, FALSE)
          /\ UNCHANGED <<db_txns, storage>>
     ELSE /\ storage' = [storage EXCEPT ![key] = MarkVisible(@, t)]
          /\ db_txns' = [db_txns EXCEPT ![t].write_set = @ \cup {key}]
          /\ ret' = Ret("delete", t, key, None, 0, TRUE)
  /\ UNCHANGED <<next_txn_id, isolation_level_, conns>>

\* Connection::Delete writing a tombstone: a version without value is
\* appended to the chain.
DeleteWithTombstone(t, key) ==
  /\ Counted
  /\ t \in conns
  /\ IF key \notin DOMAIN storage
     THEN /\ ret' = Ret("delete", t, key, None, 0, FALSE)
          /\ UNCHANGED <<db_txns, storage>>
     ELSE /\ storage' = [storage EXCEPT
                           ![key] = Append(MarkVisible(@, t),
                                           ValueWrapper(None, t, t))]
          /\ db_txns' = [db_txns EXCEPT ![t].write_set = @ \cup {key}]
          /\ ret' = Ret("delete", t, key, None, 0, TRUE)
  /\ UNCHANGED <<next_txn_id, isolation_level_, conns>>

\* Connection::Delete
Delete(t, key) ==
  /\ Counted
  /\ t \in conns
  /\ IF key \notin DOMAIN storage
     THEN /\ ret' = Ret("delete", t, key, None, 0, FALSE)
          /\ UNCHANGED <<db_txns, storage>>
     ELSE /\ storage' = [storage EXCEPT ![key] = MarkVisible(@, t)]
          /\ db_txns' = [db_txns EXCEPT ![t].write_set = @ \cup {key}]
          /\ ret' = Ret("delete", t, key, None, 0, TRUE)
  /\ UNCHANGED <<next_txn_id, isolation_level_, conns>>

\* Connection::Abort
Abort(t) ==
  /\ Counted
  /\ t \in conns
  /\ db_txns' = [db_txns EXCEPT ![t].state = kAborted]
  /\ ret' = Ret("abort", t, None, None, 0, TRUE)
  /\ UNCHANGED <<storage, next_txn_id, isolation_level_, conns>>

\* All orders in which the loop of Connection::Commit can visit the
\* std::unordered_set inprogress_txns.
Orders(S) ==
  {order \in [1..Cardinality(S) -> S] :
     \A i, j \in 1..Cardinality(S) : i # j => order[i] # order[j]}

\* CheckPeer with the snapshot branch not skipping the peers that have not
\* committed.
CheckPeerAnyPeerState(txn, another_txn) ==
  IF txn.isolation_level = kSnapshotIsolation
  THEN IF HasWriteConflict(txn, another_txn) THEN "abort"
       ELSE "continue"
  ELSE IF txn.isolation_level = kSerializableIsolation
  THEN IF HasWriteConflict(txn, another_txn) THEN "abort"
       ELSE IF HasReadWriteConflict(txn, another_txn) THEN "refuse"
       ELSE "continue"
  ELSE "continue"

\* One iteration of the loop of Connection::Commit, for the peer another_txn:
\* "abort" (Abort(); return false), "refuse" (return false) or "continue".
CheckPeer(txn, another_txn) ==
  IF txn.isolation_level = kSnapshotIsolation
  THEN IF another_txn.state # kCommitted THEN "continue"
       ELSE IF HasWriteConflict(txn, another_txn) THEN "abort"
       ELSE "continue"
  ELSE IF txn.isolation_level = kSerializableIsolation
  THEN IF HasWriteConflict(txn, another_txn) THEN "abort"
       ELSE IF HasReadWriteConflict(txn, another_txn) THEN "refuse"
       ELSE "continue"
  ELSE "continue"

\* The loop of Connection::Commit over the peers in the given order: the
\* outcome at the first peer that does not continue, "commit" after the loop.
CommitOutcome(t, order) ==
  LET stop == {i \in 1..Len(order) :
                 CheckPeer(db_txns[t], db_txns[order[i]]) # "continue"}
  IN IF stop = {} THEN "commit"
     ELSE LET first == CHOOSE i \in stop : \A j \in stop : i <= j
          IN CheckPeer(db_txns[t], db_txns[order[first]])

\* Connection::Commit
Commit(t) ==
  /\ Counted
  /\ t \in conns
  /\ \E order \in Orders(db_txns[t].inprogress_txns) :
       LET outcome == CommitOutcome(t, order)
       IN /\ db_txns' =
               IF outcome = "commit"
               THEN [db_txns EXCEPT ![t].state = kCommitted]
               ELSE IF outcome = "abort"
               THEN [db_txns EXCEPT ![t].state = kAborted]
               ELSE db_txns
          /\ ret' = Ret("commit", t, None, None, 0, outcome = "commit")
  /\ UNCHANGED <<storage, next_txn_id, isolation_level_, conns>>

\* Connection::~Connection without its call of Abort: the transaction is left
\* as it was.
DestroyKeepsState(t) ==
  /\ Counted
  /\ t \in conns
  /\ conns' = conns \ {t}
  /\ ret' = Ret("destroy", t, None, None, 0, TRUE)
  /\ UNCHANGED <<db_txns, storage, next_txn_id, isolation_level_>>

\* Connection::~Connection: the connection of transaction t leaves its scope.
Destroy(t) ==
  /\ Counted
  /\ t \in conns
  /\ conns' = conns \ {t}
  /\ db_txns' = IF db_txns[t].state = kInProgress
                THEN [db_txns EXCEPT ![t].state = kAborted]
                ELSE db_txns
  /\ ret' = Ret("destroy", t, None, None, 0, TRUE)
  /\ UNCHANGED <<storage, next_txn_id, isolation_level_>>

Next ==
  \/ \E level \in IsolationLevel : SetIsolationLevel(level)
  \/ CreateConn
  \/ \E t \in TxnIds, key \in Keys : Get(t, key)
  \/ \E t \in TxnIds, key \in Keys, value \in Values : Set(t, key, value)
  \/ \E t \in TxnIds, key \in Keys : Delete(t, key)
  \/ \E t \in TxnIds : Abort(t)
  \/ \E t \in TxnIds : Commit(t)
  \/ \E t \in TxnIds : Destroy(t)

\* Every call but SetIsolationLevel: the isolation level is left as the
\* database was set up.
NextFixed ==
  \/ CreateConn
  \/ \E t \in TxnIds, key \in Keys : Get(t, key)
  \/ \E t \in TxnIds, key \in Keys, value \in Values : Set(t, key, value)
  \/ \E t \in TxnIds, key \in Keys : Delete(t, key)
  \/ \E t \in TxnIds : Abort(t)
  \/ \E t \in TxnIds : Commit(t)
  \/ \E t \in TxnIds : Destroy(t)

\* The calls of NextFixed on two keys, every Set writing the same value.
NextTwoKeys ==
  \/ CreateConn
  \/ \E t \in TxnIds, key \in TwoKeys : Get(t, key)
  \/ \E t \in TxnIds, key \in TwoKeys : Set(t, key, "a")
  \/ \E t \in TxnIds, key \in TwoKeys : Delete(t, key)
  \/ \E t \in TxnIds : Abort(t)
  \/ \E t \in TxnIds : Commit(t)
  \/ \E t \in TxnIds : Destroy(t)

\* The calls of NextFixed as the tests make them: Get, Set, Delete, Commit
\* and Abort are called on a transaction that is in progress.
NextInProgress ==
  \/ CreateConn
  \/ \E t \in TxnIds, key \in Keys :
       db_txns[t].state = kInProgress /\ Get(t, key)
  \/ \E t \in TxnIds, key \in Keys, value \in Values :
       db_txns[t].state = kInProgress /\ Set(t, key, value)
  \/ \E t \in TxnIds, key \in Keys :
       db_txns[t].state = kInProgress /\ Delete(t, key)
  \/ \E t \in TxnIds : db_txns[t].state = kInProgress /\ Abort(t)
  \/ \E t \in TxnIds : db_txns[t].state = kInProgress /\ Commit(t)
  \/ \E t \in TxnIds : Destroy(t)

\* Any use of the interface on a fresh database.
Spec == Init /\ [][Next]_vars

\* A database left at its default level, snapshot isolation.
SpecSnapshot == Init /\ [][NextFixed]_vars

\* A database set to serializable isolation before its first connection.
SpecSerializable == InitSerializable /\ [][NextFixed]_vars

\* A database at its default level whose transactions work on two keys.
SpecTwoKeys == Init /\ [][NextTwoKeys]_vars

\* A snapshot database holding one committed version of the key, used as
\* the tests use it.
SpecPreloaded == InitPreloaded /\ [][NextInProgress]_vars

\* ---- definitions shared by the properties ----

\* The isolation levels that promise a snapshot taken at begin.
SnapshotLevels ==
  {kRepeatableReadIsolation, kSnapshotIsolation, kSerializableIsolation}

\* Positions in key's chain of the versions transaction t wrote and has not
\* itself ended.  While t is in progress no other transaction can end a
\* version of t (IsVisible shows it a version of another writer only once
\* that writer committed) and every Set or Delete of key by t ends t's earlier
\* versions, so the set holds exactly the version appended by t's last
\* Set(key, v) when that Set is t's last write to key, and is empty otherwise.
OwnLive(t, key) ==
  IF key \notin DOMAIN storage THEN {}
  ELSE {i \in 1..Len(storage[key]) :
          /\ storage[key][i].start_txn_id = t
          /\ storage[key][i].end_txn_id # t}

\* ---- C1 ----
\* C1: a Get by a transaction T at RepeatableRead, Snapshot or Serializable
\* never returns a version whose start_txn_id is in T.inprogress_txns, that
\* is, a version written by a transaction that was in progress when T began.
C1_NoReadOfConcurrentWriter ==
  (/\ ret.op = "get"
   /\ ret.idx # 0
   /\ db_txns[ret.txn].isolation_level \in SnapshotLevels)
  => storage[ret.key][ret.idx].start_txn_id
       \notin db_txns[ret.txn].inprogress_txns

\* ---- C2 ----
\* C2: read-your-writes.  A Get(k) by an in-progress transaction T whose last
\* write to k was Set(k, v) returns v, whatever other transactions did since.
C2_ReadYourWrites ==
  (/\ ret.op = "get"
   /\ db_txns[ret.txn].state = kInProgress)
  => \A i \in OwnLive(ret.txn, ret.key) :
       ret.value = storage[ret.key][i].value

\* ---- C3 ----
\* C3: a Get by transaction U never returns a version written by another
\* transaction T whose state is Aborted.
C3_AbortedWriterNeverRead ==
  (ret.op = "get" /\ ret.idx # 0)
  => LET v == storage[ret.key][ret.idx]
     IN v.start_txn_id # ret.txn
          => db_txns[v.start_txn_id].state # kAborted

\* A Get has just scanned a chain whose newest version was written by an
\* older, aborted transaction and was never ended: nothing but the writer's
\* state keeps it from the reader.
C3_Witness ==
  /\ ret.op = "get"
  /\ ret.key \in DOMAIN storage
  /\ LET chain == storage[ret.key]
         v == chain[Len(chain)]
     IN /\ v.start_txn_id < ret.txn
        /\ v.end_txn_id = kInvalidTxnId
        /\ db_txns[v.start_txn_id].state = kAborted

\* ---- C4 ----
\* C4: a transaction whose state is Committed or Aborted keeps that state
\* through every later call.
C4_TerminalStateIsFinal ==
  [][\A t \in TxnIds :
       db_txns[t].state # kInProgress
         => db_txns'[t].state = db_txns[t].state]_vars

\* ---- C5 ----
\* The peers the validation of Commit looks at for t: under Snapshot the
\* committed members of inprogress_txns, under Serializable all of them, at
\* the other levels none.
ConsideredPeers(t) ==
  IF db_txns[t].isolation_level = kSnapshotIsolation
  THEN {p \in db_txns[t].inprogress_txns : db_txns[p].state = kCommitted}
  ELSE IF db_txns[t].isolation_level = kSerializableIsolation
  THEN db_txns[t].inprogress_txns
  ELSE {}

\* C5: a Commit of an in-progress transaction that returns true leaves it
\* Committed; one that returns false while its write set shares a key with
\* the write set of a considered peer leaves it Aborted, in whatever order the
\* peers are visited.
C5_CommitResultMatchesState ==
  [][\A t \in TxnIds :
       (/\ ret'.op = "commit"
        /\ Commit(t)
        /\ db_txns[t].state = kInProgress)
         => /\ ret'.ok => db_txns'[t].state = kCommitted
            /\ (/\ ~ret'.ok
                /\ \E p \in ConsideredPeers(t) :
                     db_txns[t].write_set \cap db_txns[p].write_set # {})
                 => db_txns'[t].state = kAborted]_vars

\* ---- C6 ----
\* C6: Commit of an in-progress Snapshot transaction returns false, and aborts
\* it, exactly when a member of its inprogress_txns is Committed and wrote a
\* key it wrote too; otherwise it returns true and the transaction is
\* Committed.
C6_SnapshotCommit ==
  [][\A t \in TxnIds :
       (/\ ret'.op = "commit"
        /\ Commit(t)
        /\ db_txns[t].state = kInProgress
        /\ db_txns[t].isolation_level = kSnapshotIsolation)
         => LET conflict ==
                  \E p \in db_txns[t].inprogress_txns :
                    /\ db_txns[p].state = kCommitted
                    /\ db_txns[t].write_set \cap db_txns[p].write_set # {}
            IN /\ ret'.ok = ~conflict
               /\ db_txns'[t].state =
                    IF conflict THEN kAborted ELSE kCommitted]_vars

\* A Snapshot transaction's Commit was just refused and aborted it: a
\* transaction that was in progress when it began has committed a write to a
\* key it wrote.
C6_Witness ==
  /\ ret.op = "commit"
  /\ ~ret.ok
  /\ db_txns[ret.txn].isolation_level = kSnapshotIsolation
  /\ db_txns[ret.txn].state = kAborted
  /\ \E p \in db_txns[ret.txn].inprogress_txns :
       /\ db_txns[p].state = kCommitted
       /\ db_txns[ret.txn].write_set \cap db_txns[p].write_set # {}

\* ---- C7 ----
\* C7: Commit of an in-progress Serializable transaction returns false exactly
\* when some member of its inprogress_txns, in whatever state, has a write set
\* meeting its write set, a read set meeting its write set, or a write set
\* meeting its read set; otherwise it returns true and the transaction is
\* Committed.
C7_SerializableCommit ==
  [][\A t \in TxnIds :
       (/\ ret'.op = "commit"
        /\ Commit(t)
        /\ db_txns[t].state = kInProgress
        /\ db_txns[t].isolation_level = kSerializableIsolation)
         => LET conflict ==
                  \E p \in db_txns[t].inprogress_txns :
                    \/ db_txns[t].write_set \cap db_txns[p].write_set # {}
                    \/ db_txns[t].write_set \cap db_txns[p].read_set # {}
                    \/ db_txns[t].read_set \cap db_txns[p].write_set # {}
            IN /\ ret'.ok = ~conflict
               /\ ~conflict => db_txns'[t].state = kCommitted]_vars

\* A Serializable transaction's Commit was just refused because of a key it
\* read and a peer that is no longer in progress wrote; neither wrote a key
\* the other wrote.
C7_Witness ==
  /\ ret.op = "commit"
  /\ ~ret.ok
  /\ db_txns[ret.txn].isolation_level = kSerializableIsolation
  /\ db_txns[ret.txn].write_set = {}
  /\ \E p \in db_txns[ret.txn].inprogress_txns :
       /\ db_txns[p].state # kInProgress
       /\ db_txns[ret.txn].read_set \cap db_txns[p].write_set # {}

\* ---- C8 ----
\* C8: under ReadCommitted a transaction sees what others commit while it
\* runs.  When W, whose last write to k was Set(k, v), commits, a Get(k) made
\* next by any other in-progress ReadCommitted transaction T returns v,
\* whether W began before or after T.  (T is taken not to have written k
\* itself.)
C8_ReadCommittedSeesCommit ==
  [][\A w \in TxnIds, key \in Keys :
       (/\ ret'.op = "commit"
        /\ Commit(w)
        /\ db_txns[w].state = kInProgress
        /\ ret'.ok)
         => \A i \in OwnLive(w, key), t \in conns \ {w} :
              (/\ db_txns[t].state = kInProgress
               /\ db_txns[t].isolation_level = kReadCommittedIsolation
               /\ key \notin db_txns[t].write_set)
                => GetResult(t, key)'.value = storage[key][i].value]_vars

\* ---- C9 ----
\* C9: when T, whose last write to k was Set(k, v), commits successfully, a
\* transaction begun right after the commit reads v for k: it gets the id
\* next_txn_id, and CreateConn changes neither the chains nor the state of any
\* other transaction.
C9_CommittedWriteReadByFreshTxn ==
  [][\A t \in TxnIds, key \in Keys :
       (/\ ret'.op = "commit"
        /\ Commit(t)
        /\ db_txns[t].state = kInProgress
        /\ ret'.ok)
         => \A i \in OwnLive(t, key) :
              GetResult(next_txn_id, key)'.value = storage[key][i].value]_vars

\* ---- C10 ----
\* C10: repeatable reads.  For an in-progress transaction T at RepeatableRead,
\* Snapshot or Serializable, no call other than T's own Set or Delete of k
\* changes what Get(k) returns to T; so two Get(k) of T with no such write
\* between them return the same.
C10_RepeatableRead ==
  [][\A t \in conns, key \in Keys :
       (/\ db_txns[t].isolation_level \in SnapshotLevels
        /\ db_txns[t].state = kInProgress
        /\ db_txns'[t].state = kInProgress
        /\ t \in conns'
        /\ ~(ret'.op \in {"set", "delete"} /\ ret'.txn = t /\ ret'.key = key))
         => GetResult(t, key)' = GetResult(t, key)]_vars

\* ---- C11 ----
\* C11: when the connection of a transaction leaves its scope, the state of
\* an InProgress transaction (just begun, or left InProgress by a refused
\* Serializable commit) becomes Aborted and the state of a Committed one stays
\* Committed; the transaction of a dropped connection stays Aborted from
\* then on, and no Get of another transaction returns a version it wrote.
C11_ScopeExitAborts ==
  [][\A t \in TxnIds :
       /\ (ret'.op = "destroy" /\ Destroy(t))
            => db_txns'[t].state =
                 IF db_txns[t].state = kInProgress THEN kAborted
                 ELSE db_txns[t].state
       /\ (t \notin conns /\ db_txns[t].state = kAborted)
            => db_txns'[t].state = kAborted
       /\ (/\ t \notin conns'
           /\ db_txns'[t].state = kAborted
           /\ ret'.op = "get"
           /\ ret'.idx # 0)
            => storage'[ret'.key][ret'.idx].start_txn_id # t]_vars

\* A transaction begun after the connection of an aborted writer was dropped
\* has just read the key whose newest version that writer left unended.
C11_Witness ==
  /\ ret.op = "get"
  /\ ret.key \in DOMAIN storage
  /\ LET chain == storage[ret.key]
         v == chain[Len(chain)]
     IN /\ v.start_txn_id < ret.txn
        /\ v.end_txn_id = kInvalidTxnId
        /\ v.start_txn_id \notin conns
        /\ v.start_txn_id \notin db_txns[ret.txn].inprogress_txns
        /\ db_txns[v.start_txn_id].state = kAborted

\* ---- C12 ----
\* C12: a Delete of a key by transaction T that returned true, followed
\* directly by a Get of the same key by T with no call of any transaction in
\* between, makes that Get return none, whatever the chain contained.
C12_GetAfterDeleteIsNone ==
  [][\A t \in TxnIds, key \in Keys :
       (/\ ret.op = "delete"
        /\ ret.ok
        /\ ret.txn = t
        /\ ret.key = key
        /\ ret'.op = "get"
        /\ Get(t, key))
         => (ret'.value = None /\ ret'.idx = 0)]_vars

\* A Delete has just returned true after ending a version of another,
\* committed writer and a version of the deleting transaction itself, and a
\* further call can follow.
C12_Witness ==
  /\ ret.op = "delete"
  /\ ret.ok
  /\ calls < MaxCalls
  /\ \E i, j \in 1..Len(storage[ret.key]) :
       LET v == storage[ret.key][i]
           w == storage[ret.key][j]
       IN /\ v.end_txn_id = ret.txn
          /\ v.start_txn_id < ret.txn
          /\ db_txns[v.start_txn_id].state = kCommitted
          /\ w.end_txn_id = ret.txn
          /\ w.start_txn_id = ret.txn

\* ---- C13 ----
\* C13: inprogress_txns of a transaction is exactly the set of ids of the
\* transactions that were InProgress at the step that created it; it never
\* holds the transaction's own id, holds only smaller ids, and no later
\* call changes it.
C13_InprogressTxnsAtBegin ==
  [][/\ \A t \in TxnIds :
          db_txns'[t].inprogress_txns = db_txns[t].inprogress_txns
     /\ \A t \in (DOMAIN db_txns') \ TxnIds :
          /\ db_txns'[t].inprogress_txns
               = {id \in TxnIds : db_txns[id].state = kInProgress}
          /\ t \notin db_txns'[t].inprogress_txns
          /\ \A id \in db_txns'[t].inprogress_txns : id < t]_vars

\* A transaction has just begun while one older transaction was in progress
\* and another had already ended.
C13_Witness ==
  /\ ret.op = "begin"
  /\ \E t1, t2 \in TxnIds :
       /\ t1 \in db_txns[ret.txn].inprogress_txns
       /\ db_txns[t1].state = kInProgress
       /\ t2 < ret.txn
       /\ t2 \notin db_txns[ret.txn].inprogress_txns
       /\ db_txns[t2].state # kInProgress

\* ---- C14 ----
\* C14: every Get of a key by transaction T adds the key to the read_set of
\* T, whether or not the key has a chain in the store at the call.
C14_GetAddsKeyToReadSet ==
  [][\A t \in TxnIds, key \in Keys :
       (ret'.op = "get" /\ Get(t, key))
         => key \in db_txns'[t].read_set]_vars

\* ---- C15 ----
\* C15: in every reachable state, for every transaction T and every key, at
\* most one version of the key's chain is visible to T.
C15_AtMostOneVisibleVersion ==
  \A t \in TxnIds, key \in DOMAIN storage :
    Cardinality({i \in 1..Len(storage[key]) :
                   IsVisible(storage[key][i], t)}) <= 1

\* ---- C16 ----
\* C16: in every reachable state every version of every chain has
\* start_txn_id # 0 and either end_txn_id = 0 or end_txn_id >= start_txn_id
\* (end_txn_id is overwritten by every transaction that ends the version).
C16_EndNotBeforeStart ==
  \A key \in DOMAIN storage :
    \A i \in 1..Len(storage[key]) :
      LET v == storage[key][i]
      IN /\ v.start_txn_id # kInvalidTxnId
         /\ \/ v.end_txn_id = kInvalidTxnId
            \/ v.end_txn_id >= v.start_txn_id

\* A Delete has just ended a version of an older, committed writer, after a
\* transaction between the two, still in progress, wrote the key as well.
C16_Witness ==
  /\ ret.op = "delete"
  /\ ret.ok
  /\ \E i, j \in 1..Len(storage[ret.key]) :
       LET v == storage[ret.key][i]
           w == storage[ret.key][j]
       IN /\ i < j
          /\ v.end_txn_id = ret.txn
          /\ v.start_txn_id < w.start_txn_id
          /\ w.start_txn_id < ret.txn
          /\ db_txns[v.start_txn_id].state = kCommitted
          /\ db_txns[w.start_txn_id].state = kInProgress

C18_DeleteResult ==
  [][\A t \in TxnIds, key \in TwoKeys :
       (ret'.op = "delete" /\ Delete(t, key))
         => IF key \notin DOMAIN storage
            THEN /\ ~ret'.ok
                 /\ storage' = storage
                 /\ db_txns' = db_txns
            ELSE /\ ret'.ok
                 /\ key \in db_txns'[t].write_set]_vars

\* A Delete has just returned true on a chain of which no version was
\* visible to it: every version was written by another transaction that
\* has not committed, and none was ended.
C18_Witness ==
  /\ ret.op = "delete"
  /\ ret.ok
  /\ ret.key \in db_txns[ret.txn].write_set
  /\ \A i \in 1..Len(storage[ret.key]) :
       LET v == storage[ret.key][i]
       IN /\ v.start_txn_id # ret.txn
          /\ v.end_txn_id = kInvalidTxnId
          /\ db_txns[v.start_txn_id].state # kCommitted
  /\ \E i, j \in 1..Len(storage[ret.key]) :
       /\ db_txns[storage[ret.key][i].start_txn_id].state = kAborted
       /\ db_txns[storage[ret.key][j].start_txn_id].state = kInProgress

\* ---- C19 ----
\* C19: of two Snapshot transactions of which one was in progress when the
\* other began, and whose write sets share a key when each of them commits,
\* at most one ends Committed, whichever commits first.  Stated at the
\* Commit of the second of the two, for the pairs of which the chain of the
\* key holds a version of the second before a version of the first:
\* transactions are written through only while in progress, so both had
\* the key in their write sets already when the first one committed.
C19_FirstCommitterWins ==
  [][\A t, u \in TxnIds :
       (/\ ret'.op = "commit"
        /\ Commit(t)
        /\ t # u
        /\ db_txns[t].state = kInProgress
        /\ db_txns[u].state = kCommitted
        /\ db_txns[t].isolation_level = kSnapshotIsolation
        /\ db_txns[u].isolation_level = kSnapshotIsolation
        /\ (t \in db_txns[u].inprogress_txns
              \/ u \in db_txns[t].inprogress_txns)
        /\ \E key \in db_txns[t].write_set \cap db_txns[u].write_set :
             \E i, j \in 1..Len(storage[key]) :
               /\ i < j
               /\ storage[key][i].start_txn_id = t
               /\ storage[key][j].start_txn_id = u)
         => db_txns'[t].state # kCommitted]_vars

\* ---- C20 ----
\* C20: once a transaction D that ended a version v of a key (by Delete or
\* Set) has committed, no transaction begun after that commit reads v, also
\* when another transaction ended v as well while D was uncommitted.  Stated
\* for the version the database starts with: its writer is committed from
\* the start, so every committed transaction with the key in its write set
\* ended it, or found it ended by a transaction committed even earlier; the
\* reader is the transaction the next CreateConn begins.
C20_CommittedDeleteStays ==
  \A key \in DOMAIN storage :
    (\E d \in TxnIds :
       /\ d # storage[key][1].start_txn_id
       /\ db_txns[d].state = kCommitted
       /\ key \in db_txns[d].write_set)
      => GetResult(next_txn_id, key).idx # 1

\* ---- sanity of the model ----
TypeOK ==
  /\ next_txn_id = Len(db_txns) + 1
  /\ conns \subseteq TxnIds
  /\ isolation_level_ \in IsolationLevel
  /\ DOMAIN storage \subseteq Keys \cup TwoKeys
  /\ \A t \in TxnIds :
       /\ db_txns[t].state \in TransactionState
       /\ db_txns[t].isolation_level \in IsolationLevel
       /\ db_txns[t].inprogress_txns \subseteq 1..(t - 1)
       /\ db_txns[t].write_set \subseteq Keys \cup TwoKeys
       /\ db_txns[t].read_set \subseteq Keys \cup TwoKeys

\* What OwnLive relies on: the versions of an in-progress transaction are
\* ended by no one but itself, and at most one of them per key is not ended.
OwnLiveIsLastSet ==
  \A t \in TxnIds, key \in DOMAIN storage :
    db_txns[t].state = kInProgress
      => /\ Cardinality(OwnLive(t, key)) <= 1
         /\ \A i \in 1..Len(storage[key]) :
              storage[key][i].start_txn_id = t
                => storage[key][i].end_txn_id \in {kInvalidTxnId, t}
====
